---------------------------- MODULE Spec2Model ----------------------------
(***************************************************************************)
(* Model of the Elasticsearch client of package elastic (elastic.go).      *)
(*                                                                         *)
(* A string is a sequence of atoms.  A literal of the source is one atom   *)
(* ("/_doc/"); text supplied by a caller or by the service is spelled one  *)
(* character per atom, so that strings.ToLower, the v.Name[0] test,        *)
(* strconv.Atoi and the control-character check of url.Parse act on        *)
(* characters as they do in the code.                                      *)
(*                                                                         *)
(* Every call of a public method runs the steps                            *)
(*   Invoke -> NewRequest -> SetBasicAuth -> AddHeaders -> Do              *)
(*          -> TransportFail | Receive -> ErrReason | ReadBody             *)
(*          -> Finish -> Return                                            *)
(* which follow Client.request line by line.                               *)
(***************************************************************************)
EXTENDS Integers, Sequences, FiniteSets, TLC

\* ------------------------------------------------------------- bounds
\* Number of goroutines that share the one Client.
NumCallers == 2
\* Longest catalog listing (JSON array of index records) the service sends.
MaxRecs == 2

Callers == 1 .. NumCallers

\* ---------------------------------------------------------- constants
StatusOK == 200
uriHealth == <<"/_cat/health?format=json">>
uriIndices == <<"/_cat/indices?format=json">>

\* ------------------------------------------------------------ strings
\* unicode.ToLower on the characters the inputs use
LowerChar(c) ==
    CASE c = "A" -> "a"
      [] c = "X" -> "x"
      [] OTHER -> c

\* strings.ToLower
ToLower(s) == [i \in DOMAIN s |-> LowerChar(s[i])]

\* net/url: stringContainsCTLByte, the reason url.Parse (and so
\* http.NewRequest) rejects a URL
IsCTL(c) == c \in {"\n"}

ValidURL(u) == \A i \in DOMAIN u : ~IsCTL(u[i])

\* ------------------------------------------------------------- errors
\* An error value: its message and the root cause the wrappers keep.
NilErr == [isNil |-> TRUE, msg |-> <<>>, cause |-> <<>>]

\* errors.New
New(m) == [isNil |-> FALSE, msg |-> m, cause |-> m]

\* errors.Wrap: "<context>: <message>", cause kept; Wrap(nil) is nil
Wrap(e, ctx) ==
    IF e.isNil THEN NilErr
    ELSE [isNil |-> FALSE, msg |-> <<ctx, ": ">> \o e.msg, cause |-> e.cause]

\* http.StatusText
StatusText(s) ==
    CASE s = 200 -> "OK"
      [] s = 201 -> "Created"
      [] s = 404 -> "Not Found"
      [] s = 500 -> "Internal Server Error"
      [] OTHER -> ""

\* -------------------------------------------------------------- bytes
\* A byte slice is described by what it spells: nothing (nil), the empty
\* slice, bytes that are no JSON, the error object {"error":{"reason":T}},
\* some other JSON object (a document), or a JSON array of index records.
Bytes(kind, reason, recs) == [kind |-> kind, reason |-> reason, recs |-> recs]
NilBytes == Bytes("nil", <<>>, <<>>)
EmptyBytes == Bytes("empty", <<>>, <<>>)
GarbageBytes == Bytes("garbage", <<>>, <<>>)
DocBytes == Bytes("object", <<>>, <<>>)
ErrorBytes(t) == Bytes("error", t, <<>>)
ArrayBytes(recs) == Bytes("array", <<>>, recs)

\* type header
Hdr(k, v) == [Key |-> k, Value |-> v]


\* ------------------------------------------------------------ strconv
\* A Go int is written as its sign and its decimal digits without leading
\* zeros: the values strconv.Atoi returns do not fit TLC's integers.
Digits == {"0", "1", "2", "3", "4", "5", "6", "7", "8", "9"}

DigitVal(c) ==
    CASE c = "0" -> 0 [] c = "1" -> 1 [] c = "2" -> 2 [] c = "3" -> 3
      [] c = "4" -> 4 [] c = "5" -> 5 [] c = "6" -> 6 [] c = "7" -> 7
      [] c = "8" -> 8 [] c = "9" -> 9

IntVal(neg, mag) == [neg |-> neg, mag |-> mag]
Zero == IntVal(FALSE, <<"0">>)

\* strconv.ParseInt's cutoff 1<<63 for a 64-bit int, in digits
Cutoff ==
    <<"9", "2", "2", "3", "3", "7", "2", "0", "3", "6",
      "8", "5", "4", "7", "7", "5", "8", "0", "8">>
\* cutoff - 1, the largest int
MaxInt ==
    <<"9", "2", "2", "3", "3", "7", "2", "0", "3", "6",
      "8", "5", "4", "7", "7", "5", "8", "0", "7">>

RECURSIVE StripZeros(_)
StripZeros(d) ==
    IF Len(d) > 1 /\ Head(d) = "0" THEN StripZeros(Tail(d)) ELSE d

RECURSIVE LexLess(_, _)
\* a < b for digit strings of one length
LexLess(a, b) ==
    IF a = <<>> THEN FALSE
    ELSE IF Head(a) # Head(b) THEN DigitVal(Head(a)) < DigitVal(Head(b))
    ELSE LexLess(Tail(a), Tail(b))

\* a < b for magnitudes without leading zeros
MagLess(a, b) ==
    \/ Len(a) < Len(b)
    \/ Len(a) = Len(b) /\ LexLess(a, b)

\* strconv.Atoi, as ParseInt(s, 10, 0) computes it: a syntax error gives 0,
\* a range error gives the nearest int (cutoff-1 or -cutoff); ok is err == nil.
Atoi(s) ==
    LET signed == s # <<>> /\ Head(s) \in {"+", "-"}
        neg == signed /\ Head(s) = "-"
        ds == IF signed THEN Tail(s) ELSE s
        syntax == ds # <<>> /\ \A i \in DOMAIN ds : ds[i] \in Digits
        un == StripZeros(ds)
    IN  IF ~syntax THEN [val |-> Zero, ok |-> FALSE]
        ELSE IF ~neg /\ ~MagLess(un, Cutoff)
             THEN [val |-> IntVal(FALSE, MaxInt), ok |-> FALSE]
        ELSE IF neg /\ MagLess(Cutoff, un)
             THEN [val |-> IntVal(TRUE, Cutoff), ok |-> FALSE]
        ELSE [val |-> IntVal(neg /\ un # <<"0">>, un), ok |-> TRUE]

\* --------------------------------------------------------------- json
\* type Index, as json.Unmarshal fills it from one element of the catalog
\* array: Docs has no value in the catalog's output and starts as 0.
Index(rec) == [Name |-> rec.Name, Count |-> rec.Count, Docs |-> Zero]

\* json.Unmarshal(xb, &xi) with xi []Index
Unmarshal(xb) ==
    CASE xb.kind = "array" ->
            [xi |-> [i \in DOMAIN xb.recs |-> Index(xb.recs[i])], err |-> NilErr]
      [] xb.kind \in {"nil", "empty"} ->
            [xi |-> <<>>, err |-> New(<<"unexpected end of JSON input">>)]
      [] xb.kind = "garbage" ->
            [xi |-> <<>>,
             err |-> New(<<"invalid character looking for beginning of value">>)]
      [] OTHER ->
            [xi |-> <<>>,
             err |-> New(<<"json: cannot unmarshal object into Go value">>)]

\* ------------------------------------------------------------ streams
\* res.Body: the bytes the service sent, whether reading them fails, whether
\* they have been read already, whether Close has been called.
Stream(data, fails) ==
    [data |-> data, fails |-> fails, drained |-> FALSE, closed |-> FALSE]
NoStream == Stream(NilBytes, FALSE)

\* ioutil.ReadAll: what is left of the stream, which it consumes
ReadAll(body) ==
    IF body.fails
    THEN [xb |-> EmptyBytes, err |-> New(<<"unexpected EOF">>),
          body |-> [body EXCEPT !.drained = TRUE]]
    ELSE [xb |-> IF body.drained THEN EmptyBytes ELSE body.data,
          err |-> NilErr,
          body |-> [body EXCEPT !.drained = TRUE]]

\* json.NewDecoder(body).Decode(&r) with r struct{Error struct{Reason}}:
\* decodes what is left of the stream
Decode(body) ==
    LET in == ReadAll(body)
    IN  CASE ~in.err.isNil -> [reason |-> <<>>, err |-> in.err]
          [] in.xb.kind = "empty" -> [reason |-> <<>>, err |-> New(<<"EOF">>)]
          [] in.xb.kind = "garbage" ->
                [reason |-> <<>>,
                 err |-> New(<<"invalid character looking for beginning of value">>)]
          [] in.xb.kind = "array" ->
                [reason |-> <<>>,
                 err |-> New(<<"json: cannot unmarshal array into Go value">>)]
          [] in.xb.kind = "error" -> [reason |-> in.xb.reason, err |-> NilErr]
          [] OTHER -> [reason |-> <<>>, err |-> NilErr]

\* errReason: reads the whole body (to print it), then decodes from the same
\* reader; returns the reason text and the stream as it leaves it
errReason(body) ==
    LET read == ReadAll(body)
        dec == Decode(read.body)
    IN  [text |-> IF dec.err.isNil THEN dec.reason ELSE dec.err.msg,
         body |-> read.body]

\* -------------------------------------------------------------- state
VARIABLES
    client,           \* the Client: url, user, pass
    standardHeaders,  \* the package variable standardHeaders
    pc,               \* where each caller's call stands
    call,             \* the public method called and its arguments
    args,             \* the arguments the method passes to request
    req,              \* request's req (*http.Request)
    sent,             \* requests the call has handed to the transport
    wire,             \* the request as the transport saw it
    res,              \* request's res (*http.Response)
    ret,              \* what request returns: xb, err
    out               \* what the public method returns

vars == <<client, standardHeaders, pc, call, args, req, sent, wire, res, ret, out>>

\* NewClient
NewClient(url, user, pass) == [url |-> url, user |-> user, pass |-> pass]

\* io.Reader argument of request: nil, or strings.NewReader(text)
NoBody == [present |-> FALSE, text |-> <<>>]
NewReader(text) == [present |-> TRUE, text |-> text]

Args(method, url, body, headers) ==
    [method |-> method, url |-> url, body |-> body, headers |-> headers,
     invalid |-> NilErr]
\* a method that returns before it calls request
Reject(err) ==
    [method |-> "", url |-> <<>>, body |-> NoBody, headers |-> <<>>,
     invalid |-> err]

Call(op, index, id, doc) == [op |-> op, index |-> index, id |-> id, doc |-> doc]
NoCall == Call("none", <<>>, <<>>, <<>>)
NoReq ==
    [built |-> FALSE, method |-> "", url |-> <<>>, body |-> NoBody, Header |-> <<>>]
NoRes == [got |-> FALSE, StatusCode |-> 0, Body |-> NoStream]
Ret(xb, err) == [xb |-> xb, err |-> err]
NoRet == Ret(NilBytes, NilErr)
Out(xb, xi, err) == [xb |-> xb, xi |-> xi, err |-> err, panic |-> FALSE]
NoOut == Out(NilBytes, <<>>, NilErr)
\* v.Name[0] on an empty name: index out of range, the program stops
Panic == [xb |-> NilBytes, xi |-> <<>>, err |-> NilErr, panic |-> TRUE]

\* ------------------------------------- the public methods, up to request
CheckOK(c) == Args("GET", c.url \o uriHealth, NoBody, standardHeaders)

Indices(c) == Args("GET", c.url \o uriIndices, NoBody, standardHeaders)

\* CreateIndex without the strings.ToLower
CreateIndexAsGiven(c, name) ==
    Args("PUT", c.url \o <<"/">> \o name, NoBody, standardHeaders)

CreateIndex(c, name) ==
    Args("PUT", c.url \o <<"/">> \o ToLower(name), NoBody, standardHeaders)

DeleteIndex(c, name) ==
    Args("DELETE", c.url \o <<"/">> \o ToLower(name), NoBody, standardHeaders)

IndexDoc(c, index, id, doc) ==
    Args("POST", c.url \o <<"/">> \o ToLower(index) \o <<"/_doc/">> \o id,
         NewReader(doc), standardHeaders)

UpdateDoc(c, index, id, doc) ==
    IF id = <<>>
    THEN Reject(New(<<"UpdateDoc", " - id must be specified">>))
    ELSE Args("POST",
              c.url \o <<"/">> \o ToLower(index) \o <<"/_doc/">> \o id
                    \o <<"/_update">>,
              NewReader(<<"{\"doc\": ">> \o doc \o <<"}">>), standardHeaders)

\* DeleteDoc without the test of id
DeleteDocUnchecked(c, index, id) ==
    Args("DELETE", c.url \o <<"/">> \o ToLower(index) \o <<"/_doc/">> \o id,
         NoBody, standardHeaders)

DeleteDoc(c, index, id) ==
    IF id = <<>>
    THEN Reject(New(<<"UpdateDoc", " - id must be specified">>))
    ELSE Args("DELETE",
              c.url \o <<"/">> \o ToLower(index) \o <<"/_doc/">> \o id,
              NoBody, standardHeaders)

QueryDoc(c, index, id) ==
    Args("GET", c.url \o <<"/">> \o ToLower(index) \o <<"/_doc/">> \o id,
         NoBody, standardHeaders)

\* Batch adding its content type to the standard headers
BatchAppended(c, index, doc) ==
    Args("POST", c.url \o <<"/">> \o ToLower(index) \o <<"/_doc/_bulk">>,
         NewReader(doc),
         Append(standardHeaders, Hdr("Content-Type", <<"application/x-ndjson">>)))

Batch(c, index, doc) ==
    Args("POST", c.url \o <<"/">> \o ToLower(index) \o <<"/_doc/_bulk">>,
         NewReader(doc), <<Hdr("Content-Type", <<"application/x-ndjson">>)>>)

\* the method a call names, applied to the call's arguments
Prologue(c, k) ==
    CASE k.op = "CheckOK" -> CheckOK(c)
      [] k.op = "Indices" -> Indices(c)
      [] k.op = "CreateIndex" -> CreateIndex(c, k.index)
      [] k.op = "DeleteIndex" -> DeleteIndex(c, k.index)
      [] k.op = "IndexDoc" -> IndexDoc(c, k.index, k.id, k.doc)
      [] k.op = "UpdateDoc" -> UpdateDoc(c, k.index, k.id, k.doc)
      [] k.op = "DeleteDoc" -> DeleteDoc(c, k.index, k.id)
      [] k.op = "QueryDoc" -> QueryDoc(c, k.index, k.id)
      [] k.op = "Batch" -> Batch(c, k.index, k.doc)

\* ----------------------------------- the public methods, after request
RECURSIVE UserIndices(_)
\* Indices' loop: keeps, in order, the records whose name does not start
\* with a dot, with Docs set from Count
UserIndices(xi) ==
    IF xi = <<>> THEN <<>>
    ELSE LET v == Head(xi)
         IN  IF v.Name[1] # "."
             THEN <<[v EXCEPT !.Docs = Atoi(v.Count).val]>> \o UserIndices(Tail(xi))
             ELSE UserIndices(Tail(xi))

IndicesResult(r) ==
    IF ~r.err.isNil THEN Out(NilBytes, <<>>, Wrap(r.err, "NewRequest"))
    ELSE LET u == Unmarshal(r.xb)
         IN  IF ~u.err.isNil THEN Out(NilBytes, <<>>, Wrap(u.err, "Unmarshal"))
             ELSE IF \E i \in DOMAIN u.xi : u.xi[i].Name = <<>> THEN Panic
             ELSE Out(NilBytes, UserIndices(u.xi), NilErr)

\* CreateIndex .. DeleteDoc: the error wrapped with the method's name
WrapResult(r, name) == Out(NilBytes, <<>>, Wrap(r.err, name))

\* QueryDoc and Batch: the bytes, or the wrapped error
BytesResult(r, name) ==
    IF ~r.err.isNil THEN Out(NilBytes, <<>>, Wrap(r.err, name))
    ELSE Out(r.xb, <<>>, NilErr)

Epilogue(k, r) ==
    CASE k.op = "CheckOK" -> Out(NilBytes, <<>>, r.err)
      [] k.op = "Indices" -> IndicesResult(r)
      [] k.op \in {"QueryDoc", "Batch"} -> BytesResult(r, k.op)
      [] OTHER -> WrapResult(r, k.op)

\* ------------------------------------------------------------- inputs
AllOps ==
    {"CheckOK", "Indices", "CreateIndex", "DeleteIndex", "IndexDoc",
     "UpdateDoc", "DeleteDoc", "QueryDoc", "Batch"}
ReadOps == {"CheckOK", "Indices"}

Urls == {<<"http://dummy.host.com">>, <<"http://dummy.host.com", "\n">>}
IndexNames == {<<"A", "r", "t", "i", "c", "l", "e", "s">>, <<"a", "b">>, <<"a", "\n">>}
Ids == {<<>>, <<"1">>, <<"X", "1">>}
DocTexts == {<<"{\"title\": 1}">>}

\* the calls a caller can make: a method takes only its own parameters
Calls(ops) ==
    {Call(op, <<>>, <<>>, <<>>) : op \in ops \cap {"CheckOK", "Indices"}}
    \cup {Call(op, n, <<>>, <<>>) :
            op \in ops \cap {"CreateIndex", "DeleteIndex"}, n \in IndexNames}
    \cup {Call(op, n, id, d) :
            op \in ops \cap {"IndexDoc", "UpdateDoc"}, n \in IndexNames,
            id \in Ids, d \in DocTexts}
    \cup {Call(op, n, id, <<>>) :
            op \in ops \cap {"DeleteDoc", "QueryDoc"}, n \in IndexNames, id \in Ids}
    \cup {Call(op, n, <<>>, d) :
            op \in ops \cap {"Batch"}, n \in IndexNames, d \in DocTexts}

Statuses == {200, 201, 404, 500}
TransportErrs == {<<"dial tcp: connection refused">>}
Reason == <<"no such index">>

\* one element of the catalog's JSON array
RecNames == {<<"a", "r", "t">>, <<".", "k">>, <<>>}
\* count strings: 42, none, not a number, negative, leading zero, the largest
\* int, and the first number past it
CountStrs ==
    {<<"4", "2">>, <<>>, <<"4", "x">>, <<"-", "7">>, <<"0", "7">>, MaxInt, Cutoff}
Recs == {[Name |-> n, Count |-> c] : n \in RecNames, c \in CountStrs}
RecSeqs == UNION {[1 .. n -> Recs] : n \in 0 .. MaxRecs}

CommonBodies == {EmptyBytes, GarbageBytes, DocBytes, ErrorBytes(Reason)}
\* a body that arrives whole, and one whose read fails
CommonStreams ==
    {Stream(b, FALSE) : b \in CommonBodies} \cup {Stream(EmptyBytes, TRUE)}
ListingStreams == {Stream(ArrayBytes(r), FALSE) : r \in RecSeqs}
\* what the service can answer a call with: the catalog request is the one
\* answered with listings
Streams(k) ==
    IF k.op = "Indices" THEN CommonStreams \cup ListingStreams ELSE CommonStreams

\* the answers used when several callers run at once
SharedStatuses == {200, 404}
SharedStreams ==
    {Stream(ErrorBytes(Reason), FALSE),
     Stream(ArrayBytes(<<[Name |-> <<"a", "r", "t">>, Count |-> <<"4", "2">>],
                         [Name |-> <<".", "k">>, Count |-> <<>>]>>), FALSE),
     Stream(ArrayBytes(<<[Name |-> <<>>, Count |-> <<>>]>>), FALSE)}

\* ------------------------------------------------------------ actions
Alive == \A q \in Callers : pc[q] # "panic"

Init ==
    /\ client \in {NewClient(u, <<"dummyUser">>, <<"dummyPass">>) : u \in Urls}
    /\ standardHeaders = <<Hdr("Content-Type", <<"application/json">>)>>
    /\ pc = [p \in Callers |-> "idle"]
    /\ call = [p \in Callers |-> NoCall]
    /\ args = [p \in Callers |-> Reject(NilErr)]
    /\ req = [p \in Callers |-> NoReq]
    /\ sent = [p \in Callers |-> 0]
    /\ wire = [p \in Callers |-> NoReq]
    /\ res = [p \in Callers |-> NoRes]
    /\ ret = [p \in Callers |-> NoRet]
    /\ out = [p \in Callers |-> NoOut]

\* A caller calls a public method: the method's code up to its call of
\* request, or up to its early return.
Invoke(p, k) ==
    /\ Alive
    /\ pc[p] = "idle"
    /\ call' = [call EXCEPT ![p] = k]
    /\ LET a == Prologue(client, k)
       IN  IF a.invalid.isNil
           THEN /\ args' = [args EXCEPT ![p] = a]
                /\ pc' = [pc EXCEPT ![p] = "newreq"]
                /\ out' = out
           ELSE /\ args' = args
                /\ pc' = [pc EXCEPT ![p] = "done"]
                /\ out' = [out EXCEPT ![p] = Out(NilBytes, <<>>, a.invalid)]
    /\ UNCHANGED <<client, standardHeaders, req, sent, wire, res, ret>>

\* request: http.NewRequest, and the return when it fails
NewRequest(p) ==
    /\ Alive
    /\ pc[p] = "newreq"
    /\ IF ValidURL(args[p].url)
       THEN /\ req' = [req EXCEPT ![p] =
                          [built |-> TRUE, method |-> args[p].method,
                           url |-> args[p].url, body |-> args[p].body,
                           Header |-> <<>>]]
            /\ pc' = [pc EXCEPT ![p] = "auth"]
            /\ ret' = ret
       ELSE /\ req' = req
            /\ pc' = [pc EXCEPT ![p] = "ret"]
            /\ ret' = [ret EXCEPT ![p] =
                          Ret(NilBytes,
                              Wrap(New(<<"net/url: invalid control character in URL">>),
                                   "request"))]
    /\ UNCHANGED <<client, standardHeaders, call, args, sent, wire, res, out>>

\* the credentials put on the shared header list instead of on the request
SetBasicAuthShared(p) ==
    /\ Alive
    /\ pc[p] = "auth"
    /\ standardHeaders' =
          Append(standardHeaders,
                 Hdr("Authorization",
                     <<"Basic ">> \o client.user \o <<":">> \o client.pass))
    /\ pc' = [pc EXCEPT ![p] = "hdrs"]
    /\ UNCHANGED <<client, req, call, args, sent, wire, res, ret, out>>

\* req.SetBasicAuth(c.user, c.pass): sets the Authorization header (its
\* value is the base64 form of user ":" pass, written here undecoded)
SetBasicAuth(p) ==
    /\ Alive
    /\ pc[p] = "auth"
    /\ req' = [req EXCEPT ![p].Header =
                  SelectSeq(@, LAMBDA h : h.Key # "Authorization")
                  \o <<Hdr("Authorization",
                           <<"Basic ">> \o client.user \o <<":">> \o client.pass)>>]
    /\ pc' = [pc EXCEPT ![p] = "hdrs"]
    /\ UNCHANGED <<client, standardHeaders, call, args, sent, wire, res, ret, out>>

\* the loop over headers: req.Header.Add(h.Key, h.Value) for each
AddHeaders(p) ==
    /\ Alive
    /\ pc[p] = "hdrs"
    /\ req' = [req EXCEPT ![p].Header = @ \o args[p].headers]
    /\ pc' = [pc EXCEPT ![p] = "do"]
    /\ UNCHANGED <<client, standardHeaders, call, args, sent, wire, res, ret, out>>

\* http.DefaultClient.Do(req): the request goes to the transport
Do(p) ==
    /\ Alive
    /\ pc[p] = "do"
    /\ sent' = [sent EXCEPT ![p] = @ + 1]
    /\ wire' = [wire EXCEPT ![p] = req[p]]
    /\ pc' = [pc EXCEPT ![p] = "wait"]
    /\ UNCHANGED <<client, standardHeaders, call, args, req, res, ret, out>>

\* a failed dispatch tried once more
TransportFailRetry(p, cause) ==
    /\ Alive
    /\ pc[p] = "wait"
    /\ IF sent[p] < 2
       THEN /\ pc' = [pc EXCEPT ![p] = "do"]
            /\ ret' = ret
       ELSE /\ pc' = [pc EXCEPT ![p] = "ret"]
            /\ ret' = [ret EXCEPT ![p] = Ret(NilBytes, Wrap(New(cause), "request"))]
    /\ UNCHANGED <<client, standardHeaders, call, args, req, sent, wire, res, out>>

\* Do returns an error: request returns it wrapped
TransportFail(p, cause) ==
    /\ Alive
    /\ pc[p] = "wait"
    /\ ret' = [ret EXCEPT ![p] = Ret(NilBytes, Wrap(New(cause), "request"))]
    /\ pc' = [pc EXCEPT ![p] = "ret"]
    /\ UNCHANGED <<client, standardHeaders, call, args, req, sent, wire, res, out>>

\* Do returns a response
Receive(p, status, body) ==
    /\ Alive
    /\ pc[p] = "wait"
    /\ res' = [res EXCEPT ![p] = [got |-> TRUE, StatusCode |-> status, Body |-> body]]
    /\ pc' = [pc EXCEPT ![p] = "status"]
    /\ UNCHANGED <<client, standardHeaders, call, args, req, sent, wire, ret, out>>

StatusIs2xx(status) == status \div 100 = 2

\* the test res.StatusCode != http.StatusOK, negated
IsOK(status) == status = StatusOK

\* res.StatusCode != http.StatusOK: request returns the status text and
\* errReason(res.Body)
ErrReason(p) ==
    /\ Alive
    /\ pc[p] = "status"
    /\ ~IsOK(res[p].StatusCode)
    /\ LET r == errReason(res[p].Body)
       IN  /\ ret' = [ret EXCEPT ![p] =
                         Ret(NilBytes,
                             New(<<StatusText(res[p].StatusCode), " - ">> \o r.text))]
           /\ res' = [res EXCEPT ![p].Body = r.body]
    /\ pc' = [pc EXCEPT ![p] = "ret"]
    /\ UNCHANGED <<client, standardHeaders, call, args, req, sent, wire, out>>

\* status 200: defer res.Body.Close(); return ioutil.ReadAll(res.Body)
ReadBody(p) ==
    /\ Alive
    /\ pc[p] = "status"
    /\ IsOK(res[p].StatusCode)
    /\ LET r == ReadAll(res[p].Body)
       IN  /\ ret' = [ret EXCEPT ![p] = Ret(r.xb, r.err)]
           /\ res' = [res EXCEPT ![p].Body = [r.body EXCEPT !.closed = TRUE]]
    /\ pc' = [pc EXCEPT ![p] = "ret"]
    /\ UNCHANGED <<client, standardHeaders, call, args, req, sent, wire, out>>

\* request has returned: the rest of the public method
Finish(p) ==
    /\ Alive
    /\ pc[p] = "ret"
    /\ LET o == Epilogue(call[p], ret[p])
       IN  /\ out' = [out EXCEPT ![p] = o]
           /\ pc' = [pc EXCEPT ![p] = IF o.panic THEN "panic" ELSE "done"]
    /\ UNCHANGED <<client, standardHeaders, call, args, req, sent, wire, res, ret>>

\* the caller has its result and is free to call again
Return(p) ==
    /\ Alive
    /\ pc[p] = "done"
    /\ pc' = [pc EXCEPT ![p] = "idle"]
    /\ call' = [call EXCEPT ![p] = NoCall]
    /\ args' = [args EXCEPT ![p] = Reject(NilErr)]
    /\ req' = [req EXCEPT ![p] = NoReq]
    /\ sent' = [sent EXCEPT ![p] = 0]
    /\ wire' = [wire EXCEPT ![p] = NoReq]
    /\ res' = [res EXCEPT ![p] = NoRes]
    /\ ret' = [ret EXCEPT ![p] = NoRet]
    /\ out' = [out EXCEPT ![p] = NoOut]
    /\ UNCHANGED <<client, standardHeaders>>

\* One caller, every method, every answer.
Next ==
    \E p \in {1} :
        \/ \E k \in Calls(AllOps) : Invoke(p, k)
        \/ NewRequest(p)
        \/ SetBasicAuth(p)
        \/ AddHeaders(p)
        \/ Do(p)
        \/ \E cause \in TransportErrs : TransportFail(p, cause)
        \/ /\ pc[p] = "wait"
           /\ \E status \in Statuses, body \in Streams(call[p]) :
                 Receive(p, status, body)
        \/ ErrReason(p)
        \/ ReadBody(p)
        \/ Finish(p)
        \/ Return(p)

Spec == Init /\ [][Next]_vars

\* Every caller at once on the shared Client, calling CheckOK and Indices.
NextShared ==
    \E p \in Callers :
        \/ \E k \in Calls(ReadOps) : Invoke(p, k)
        \/ NewRequest(p)
        \/ SetBasicAuth(p)
        \/ AddHeaders(p)
        \/ Do(p)
        \/ \E cause \in TransportErrs : TransportFail(p, cause)
        \/ \E status \in SharedStatuses, body \in SharedStreams : Receive(p, status, body)
        \/ ErrReason(p)
        \/ ReadBody(p)
        \/ Finish(p)
        \/ Return(p)

SpecShared == Init /\ [][NextShared]_vars

\* ------------------------------------------------------------- claims
\* t is the end of s
EndsWith(s, t) ==
    /\ Len(t) <= Len(s)
    /\ SubSeq(s, Len(s) - Len(t) + 1, Len(s)) = t

\* the response was received and its body can be read to the end
Delivered(p) == res[p].got /\ ~res[p].Body.fails

\* the error request has returned, or the method has returned, to caller p
Failure(p) == IF pc[p] = "ret" THEN ret[p].err ELSE out[p].err

\* C1: for a response whose status is not 200 and whose body is the JSON
\* object {"error":{"reason": T}}, the message of the error returned by
\* request, and by the method that called it, ends with exactly T.
C1_ReasonEndsMessage ==
    \A p \in Callers :
        (/\ pc[p] \in {"ret", "done"}
         /\ Delivered(p)
         /\ res[p].StatusCode # 200
         /\ res[p].Body.data.kind = "error")
        => /\ ~Failure(p).isNil
           /\ EndsWith(Failure(p).msg, res[p].Body.data.reason)

\* C2: for every status and body delivered, request returns the body's bytes
\* unmodified and a nil error if and only if the status is exactly 200; for
\* any other status (201 too) it returns no bytes and a non-nil error.
\* QueryDoc and Batch hand the bytes of a 200 to the caller as they are.
C2_BytesIffStatus200 ==
    \A p \in Callers :
        /\ (pc[p] = "ret" /\ Delivered(p))
           => IF res[p].StatusCode = 200
              THEN ret[p].xb = res[p].Body.data /\ ret[p].err.isNil
              ELSE ret[p].xb = NilBytes /\ ~ret[p].err.isNil
        /\ (pc[p] = "done" /\ Delivered(p) /\ call[p].op \in {"QueryDoc", "Batch"})
           => IF res[p].StatusCode = 200
              THEN out[p].xb = res[p].Body.data /\ out[p].err.isNil
              ELSE out[p].xb = NilBytes /\ ~out[p].err.isNil

\* QueryDoc has returned the document the service sent with status 200
C2_Witness ==
    /\ pc[1] = "done"
    /\ call[1].op = "QueryDoc"
    /\ res[1].StatusCode = 200
    /\ res[1].Body.data = DocBytes
    /\ out[1].xb = DocBytes
    /\ out[1].err.isNil

\* a decimal integer: an optional sign, then digits
IsInteger(s) ==
    LET ds == IF s # <<>> /\ Head(s) \in {"+", "-"} THEN Tail(s) ELSE s
    IN  ds # <<>> /\ \A i \in DOMAIN ds : ds[i] \in Digits

\* the value of a decimal integer
IntegerValue(s) ==
    LET mag == StripZeros(IF Head(s) \in {"+", "-"} THEN Tail(s) ELSE s)
    IN  IntVal(Head(s) = "-" /\ mag # <<"0">>, mag)

RECURSIVE Listing(_)
\* the listing C3 describes, for the records of a catalog response
Listing(recs) ==
    IF recs = <<>> THEN <<>>
    ELSE LET r == Head(recs)
         IN  IF Head(r.Name) = "." THEN Listing(Tail(recs))
             ELSE <<[Name |-> r.Name, Count |-> r.Count,
                     Docs |-> IF IsInteger(r.Count) THEN IntegerValue(r.Count)
                              ELSE Zero]>>
                  \o Listing(Tail(recs))

\* C3: for a decodable catalog response whose records all have a name,
\* Indices returns, without failing, exactly the records whose name does not
\* start with '.', in the service's order, each with Docs the integer value of
\* its count string, or 0 when that string is no integer.
C3_IndicesListing ==
    \A p \in Callers :
        (/\ pc[p] = "done"
         /\ call[p].op = "Indices"
         /\ Delivered(p)
         /\ res[p].StatusCode = 200
         /\ res[p].Body.data.kind = "array"
         /\ \A i \in DOMAIN res[p].Body.data.recs :
                res[p].Body.data.recs[i].Name # <<>>)
        => /\ out[p].err.isNil
           /\ out[p].xi = Listing(res[p].Body.data.recs)

\* no control character in the text
Clean(s) == \A i \in DOMAIN s : s[i] # "\n"

\* C4: with an empty id, UpdateDoc and DeleteDoc return a non-nil error and
\* neither build nor dispatch a request; IndexDoc and QueryDoc with an empty
\* id are not stopped: they dispatch their request (whenever the URL is one
\* a request can be built for).
C4_EmptyId ==
    \A p \in Callers :
        /\ (call[p].op \in {"UpdateDoc", "DeleteDoc"} /\ call[p].id = <<>>)
           => /\ pc[p] = "done"
              /\ ~out[p].err.isNil
              /\ ~req[p].built
              /\ sent[p] = 0
        /\ (/\ call[p].op \in {"IndexDoc", "QueryDoc"}
            /\ call[p].id = <<>>
            /\ Clean(client.url) /\ Clean(call[p].index)
            /\ pc[p] = "done")
           => sent[p] = 1

\* DeleteDoc with an empty id has returned an error and nothing was sent
C4_Witness ==
    /\ pc[1] = "done"
    /\ call[1].op = "DeleteDoc"
    /\ call[1].id = <<>>
    /\ ~out[1].err.isNil
    /\ sent[1] = 0

\* the methods an error message names
Named(e) == {e.msg[i] : i \in DOMAIN e.msg} \cap AllOps

\* C5: the message of every error a public method returns names that method
\* and no other, for request failures and for local validation failures.
C5_ErrorNamesOperation ==
    \A p \in Callers :
        (pc[p] = "done" /\ ~out[p].err.isNil) => Named(out[p].err) = {call[p].op}

\* x is the lowercase form of character c
IsLowerOf(x, c) ==
    \/ c = "A" /\ x = "a"
    \/ c = "X" /\ x = "x"
    \/ c \notin {"A", "X"} /\ x = c

\* what follows the index segment in a method's URL
AfterIndex(k) ==
    CASE k.op \in {"CreateIndex", "DeleteIndex"} -> <<>>
      [] k.op \in {"IndexDoc", "DeleteDoc", "QueryDoc"} -> <<"/_doc/">> \o k.id
      [] k.op = "UpdateDoc" -> <<"/_doc/">> \o k.id \o <<"/_update">>
      [] k.op = "Batch" -> <<"/_doc/_bulk">>

\* C6: for every method that takes an index name and every name given, the
\* URL requested is the base URL, "/", the lowercase form of the name, and
\* the method's own path with the document id as given; CreateIndex issues
\* a PUT.
C6_LowercaseIndex ==
    \A p \in Callers :
        (sent[p] > 0 /\ call[p].op \notin {"CheckOK", "Indices"})
        => LET u == wire[p].url
               b == Len(client.url)
               n == Len(call[p].index)
           IN  /\ Len(u) = b + 1 + n + Len(AfterIndex(call[p]))
               /\ SubSeq(u, 1, b) = client.url
               /\ u[b + 1] = "/"
               /\ \A i \in 1 .. n : IsLowerOf(u[b + 1 + i], call[p].index[i])
               /\ SubSeq(u, b + n + 2, Len(u)) = AfterIndex(call[p])
               /\ (call[p].op = "CreateIndex" => wire[p].method = "PUT")

\* CreateIndex("Articles") has sent PUT <base URL>/articles
C6_Witness ==
    /\ sent[1] = 1
    /\ call[1].op = "CreateIndex"
    /\ call[1].index = <<"A", "r", "t", "i", "c", "l", "e", "s">>
    /\ wire[1].method = "PUT"
    /\ wire[1].url = client.url \o <<"/", "a", "r", "t", "i", "c", "l", "e", "s">>

\* the values of a request's Content-Type headers
ContentTypes(r) ==
    LET hs == SelectSeq(r.Header, LAMBDA h : h.Key = "Content-Type")
    IN  [i \in DOMAIN hs |-> hs[i].Value]

\* C7: a request Batch dispatches carries exactly one Content-Type header,
\* application/x-ndjson; a request of any other method carries exactly one,
\* application/json; standardHeaders holds the same one header after any
\* sequence of calls.
C7_ContentType ==
    /\ standardHeaders = <<[Key |-> "Content-Type", Value |-> <<"application/json">>]>>
    /\ \A p \in Callers :
          sent[p] > 0
          => ContentTypes(wire[p]) =
                IF call[p].op = "Batch" THEN <<(<<"application/x-ndjson">>)>>
                ELSE <<(<<"application/json">>)>>

\* Batch has sent a request with the one NDJSON content type
C7_Witness ==
    /\ sent[1] = 1
    /\ call[1].op = "Batch"
    /\ ContentTypes(wire[1]) = <<(<<"application/x-ndjson">>)>>

\* what one call owns
Own(p) == <<pc[p], call[p], args[p], req[p], sent[p], wire[p], res[p], ret[p], out[p]>>

\* what the transport did for a call
Outcome(p) == <<call[p].op, res[p].got, res[p].StatusCode, res[p].Body.data,
                res[p].Body.fails, ret[p].err.cause>>

\* C8: with several callers running CheckOK and Indices on one Client, in
\* every interleaving no step writes the Client or standardHeaders, a step
\* of one call leaves every other call's state as it was, and two finished
\* calls of the same method with the same outcome at the transport have the
\* same result.
C8_NoInterference ==
    [][/\ client' = client
       /\ standardHeaders' = standardHeaders
       /\ \A p, q \in Callers :
             (p # q /\ Own(p)' # Own(p)) => Own(q)' = Own(q)
       /\ \A p, q \in Callers :
             (pc'[p] = "done" /\ pc'[q] = "done" /\ Outcome(p)' = Outcome(q)')
             => out'[p] = out'[q]]_vars

\* two callers have finished at once: CheckOK with an error from its 404,
\* Indices with the listing from its 200
C8_Witness ==
    /\ pc[1] = "done" /\ pc[2] = "done"
    /\ call[1].op = "CheckOK" /\ res[1].StatusCode = 404 /\ ~out[1].err.isNil
    /\ call[2].op = "Indices" /\ res[2].StatusCode = 200 /\ Len(out[2].xi) = 1

\* C9: once request has returned after receiving a response, whatever the
\* status, the response body has been closed.
C9_BodyClosed ==
    \A p \in Callers :
        (pc[p] \in {"ret", "done", "panic"} /\ res[p].got) => res[p].Body.closed

\* the call passes the method's own checks and its URL can be parsed
Dispatchable(k) ==
    /\ ~(k.op \in {"UpdateDoc", "DeleteDoc"} /\ k.id = <<>>)
    /\ Clean(client.url) /\ Clean(k.index) /\ Clean(k.id)

\* C10: a call dispatches at most one request: exactly one when validation
\* and request construction succeed, none otherwise.  The request dispatched
\* carries the Basic credentials and every header the method supplied.  When
\* the dispatch fails, the call returns a non-nil error that wraps the
\* transport's error, and has dispatched once.
C10_OneDispatch ==
    \A p \in Callers :
        /\ sent[p] <= 1
        /\ pc[p] \in {"wait", "status", "ret", "done", "panic"}
           => sent[p] = IF Dispatchable(call[p]) THEN 1 ELSE 0
        /\ sent[p] > 0
           => /\ \E i \in DOMAIN wire[p].Header :
                    wire[p].Header[i] =
                       [Key |-> "Authorization",
                        Value |-> <<"Basic ">> \o client.user \o <<":">> \o client.pass]
              /\ \A j \in DOMAIN args[p].headers :
                    \E i \in DOMAIN wire[p].Header :
                       wire[p].Header[i] = args[p].headers[j]
        /\ (pc[p] \in {"ret", "done"} /\ sent[p] > 0 /\ ~res[p].got)
           => /\ ~Failure(p).isNil
              /\ Failure(p).cause \in TransportErrs
              /\ EndsWith(Failure(p).msg, Failure(p).cause)

\* a call whose dispatch failed has returned the wrapped transport error
C10_Witness ==
    /\ pc[1] = "done"
    /\ sent[1] = 1
    /\ ~res[1].got
    /\ out[1].err.cause = <<"dial tcp: connection refused">>

=============================================================================
